---- MODULE Spec2Model ----
(***************************************************************************)
(* Model of scripts/generate_keyboard_layout.py: the key position model,   *)
(* the 26x26 distance classification, the KYBD binary encoding and the     *)
(* batch driver main(), with the output directory as a reader sees it.     *)
(***************************************************************************)
EXTENDS Integers, Sequences, FiniteSets, TLC

VARIABLES
    argv,                \* the --layout values given on the command line, in order
    prev,                \* whether an earlier run left its files in the output directory
    pc,                  \* position of the script
    args_layout,         \* args.layout as parse_args() left it
    layouts_to_generate, \* main(): the list the for-loop walks
    idx,                 \* main(): index (0-based) of the loop's current element
    layout_name,         \* main(): the loop variable
    rows,                \* the layout definition handed to write_layout_file
    output_path,         \* the destination path of the current file
    matrix,              \* write_layout_file(): the computed distance matrix
    buf,                 \* the open file object's user-space write buffer
    fs,                  \* the files of the output directory: path -> bytes
    stdout,              \* the lines printed so far
    failed,              \* the layout whose write raised, or NoLayout
    ret,                 \* what main() returned, or "unset"
    decoded              \* the reader's result of decoding the file

vars == <<argv, prev, pc, args_layout, layouts_to_generate, idx, layout_name, rows,
          output_path, matrix, buf, fs, stdout, failed, ret, decoded>>

----------------------------------------------------------------------------
(* Bounds of the model *)

\* how many --layout options one command line carries at most
MaxArgs == 2
\* how many distinct letters a generated layout definition draws from
PoolSize == 3
\* how many rows a generated layout definition has at most
MaxRows == 4
\* how many keys a row of a generated layout definition has at most
MaxRowLen == 3
\* a failed flush leaves one of MaxTorn + 1 proper prefixes of the buffer
MaxTorn == 2
\* coefficients of the generated (not necessarily symmetric) matrices
MaxCoef == 2

----------------------------------------------------------------------------
(* Program constants *)

\* b"KYBD"
MAGIC == <<75, 89, 66, 68>>

VERSION == 1

\* range(26): the letters a..z
NumLetters == 26

Letters == <<"a", "b", "c", "d", "e", "f", "g", "h", "i", "j", "k", "l", "m",
             "n", "o", "p", "q", "r", "s", "t", "u", "v", "w", "x", "y", "z">>

\* chr(ord('a') + i)
chr_a(i) == Letters[i + 1]

QWERTY_ROWS == <<
    <<"q", "w", "e", "r", "t", "y", "u", "i", "o", "p">>,
    <<"a", "s", "d", "f", "g", "h", "j", "k", "l">>,
    <<"z", "x", "c", "v", "b", "n", "m">> >>

AZERTY_ROWS == <<
    <<"a", "z", "e", "r", "t", "y", "u", "i", "o", "p">>,
    <<"q", "s", "d", "f", "g", "h", "j", "k", "l", "m">>,
    <<"w", "x", "c", "v", "b", "n">> >>

QWERTZ_ROWS == <<
    <<"q", "w", "e", "r", "t", "z", "u", "i", "o", "p">>,
    <<"a", "s", "d", "f", "g", "h", "j", "k", "l">>,
    <<"y", "x", "c", "v", "b", "n", "m">> >>

DVORAK_ROWS == <<
    <<"p", "y", "f", "g", "c", "r", "l">>,
    <<"a", "o", "e", "u", "i", "d", "h", "t", "n", "s">>,
    <<"q", "j", "k", "x", "b", "m", "w", "v", "z">> >>

COLEMAK_ROWS == <<
    <<"q", "w", "f", "p", "g", "j", "l", "u", "y">>,
    <<"a", "r", "s", "t", "d", "h", "n", "e", "i", "o">>,
    <<"z", "x", "c", "v", "b", "k", "m">> >>

\* list(LAYOUTS.keys()): insertion order of the dict
LayoutNames == <<"qwerty", "azerty", "qwertz", "dvorak", "colemak">>

LAYOUTS == [n \in {"qwerty", "azerty", "qwertz", "dvorak", "colemak"} |->
    CASE n = "qwerty" -> QWERTY_ROWS
      [] n = "azerty" -> AZERTY_ROWS
      [] n = "qwertz" -> QWERTZ_ROWS
      [] n = "dvorak" -> DVORAK_ROWS
      [] n = "colemak" -> COLEMAK_ROWS]

----------------------------------------------------------------------------
(* get_key_positions *)

Range(s) == {s[k] : k \in 1..Len(s)}

\* positions[key] = value on a dict
DictPut(d, key, value) ==
    [x \in (DOMAIN d) \cup {key} |-> IF x = key THEN value ELSE d[x]]

EmptyDict == [x \in {} |-> <<0, 0>>]

\* the table as the comment above it describes it (bottom row: 2 half-keys)
row_offsets_comment == <<0, 1, 2>>

row_offsets == <<0, 1, 3>>

row_offset(row_idx) ==
    IF row_idx < Len(row_offsets) THEN row_offsets[row_idx + 1] ELSE row_idx * 2

RECURSIVE put_keys(_, _, _, _)
\* the inner loop: for col_idx, key in enumerate(row)
put_keys(positions, row, row_idx, col_idx) ==
    IF col_idx >= Len(row) THEN positions
    ELSE put_keys(DictPut(positions, row[col_idx + 1],
                          <<row_idx * 2, col_idx * 2 + row_offset(row_idx)>>),
                  row, row_idx, col_idx + 1)

RECURSIVE put_rows(_, _, _)
\* the outer loop: for row_idx, row in enumerate(rows)
put_rows(positions, rws, row_idx) ==
    IF row_idx >= Len(rws) THEN positions
    ELSE put_rows(put_keys(positions, rws[row_idx + 1], row_idx, 0),
                  rws, row_idx + 1)

get_key_positions(rws) == put_rows(EmptyDict, rws, 0)

----------------------------------------------------------------------------
(* compute_distance_matrix *)

abs(x) == IF x < 0 THEN -x ELSE x

max(x, y) == IF x >= y THEN x ELSE y

chebyshev_nosign(pos_i, pos_j) ==
    max(abs(pos_i[1] - pos_j[1]), pos_i[2] - pos_j[2])

chebyshev(pos_i, pos_j) ==
    max(abs(pos_i[1] - pos_j[1]), abs(pos_i[2] - pos_j[2]))

classify_strict(cheb) ==
    IF cheb < 2 THEN 1
    ELSE IF cheb < 4 THEN 2
    ELSE 255

classify(cheb) ==
    IF cheb <= 2 THEN 1
    ELSE IF cheb <= 4 THEN 2
    ELSE 255

Lookup(positions, c) == IF c \in DOMAIN positions THEN positions[c] ELSE <<0, 0>>

matrix_cell_nodiag(positions, i, j) ==
    IF chr_a(i) \in DOMAIN positions /\ chr_a(j) \in DOMAIN positions
    THEN classify(chebyshev(positions[chr_a(i)], positions[chr_a(j)]))
    ELSE 255

matrix_cell_sentinel(positions, i, j) ==
    IF i = j THEN 0
    ELSE classify(chebyshev(Lookup(positions, chr_a(i)), Lookup(positions, chr_a(j))))

\* the body of the double loop: the value matrix[i][j] ends with
matrix_cell(positions, i, j) ==
    IF i = j THEN 0
    ELSE IF chr_a(i) \in DOMAIN positions /\ chr_a(j) \in DOMAIN positions
    THEN classify(chebyshev(positions[chr_a(i)], positions[chr_a(j)]))
    ELSE 255

compute_distance_matrix(rws) ==
    LET positions == get_key_positions(rws)
    IN  [i \in 0..(NumLetters - 1) |->
            [j \in 0..(NumLetters - 1) |-> matrix_cell(positions, i, j)]]

----------------------------------------------------------------------------
(* the encoding of write_layout_file, and the reader's decoding *)

\* struct.pack('B', v)
pack_B(v) == <<v>>

\* bytes(row)
bytes_of(row) == [k \in 1..NumLetters |-> row[k - 1]]

RECURSIVE write_rows(_, _, _)
\* for row in matrix: f.write(bytes(row))
write_rows(b, m, i) ==
    IF i >= NumLetters THEN b
    ELSE write_rows(b \o bytes_of(m[i]), m, i + 1)

RECURSIVE write_columns(_, _, _)
write_columns(b, m, j) ==
    IF j >= NumLetters THEN b
    ELSE write_columns(b \o [k \in 1..NumLetters |-> m[k - 1][j]], m, j + 1)

Encode_noversion(m) == write_rows(MAGIC, m, 0)

Encode_transposed(m) == write_columns(MAGIC \o pack_B(VERSION), m, 0)

\* everything the with-block writes, in order
Encode(m) == write_rows(MAGIC \o pack_B(VERSION), m, 0)

\* "Total file size: 681 bytes per layout": 4 + 1 + 26 * 26
FileSize == 681

\* "Header: KYBD (4 bytes magic) + version (1 byte)": offset of the matrix
HeaderSize == 5

\* the consumer's decoding, as the specification describes it: the length,
\* then magic and version, then the payload at offset 5 + row * 26 + col
Decode(b) ==
    IF Len(b) < FileSize THEN [kind |-> "TruncatedFile"]
    ELSE IF SubSeq(b, 1, 4) # <<75, 89, 66, 68>> \/ b[5] # 1
    THEN [kind |-> "MalformedFile"]
    ELSE [kind |-> "ok",
          matrix |-> [i \in 0..(NumLetters - 1) |->
                        [j \in 0..(NumLetters - 1) |->
                            b[HeaderSize + i * NumLetters + j + 1]]]]

----------------------------------------------------------------------------
(* main(): the command line *)

NoLayout == "-"

\* choices=list(LAYOUTS.keys()) + ["all"]
Choices == Range(LayoutNames) \cup {"all"}

\* checks only the value it keeps
parse_args_lastonly(av) ==
    IF av # <<>> /\ av[Len(av)] \notin Choices
    THEN [ok |-> FALSE, layout |-> NoLayout]
    ELSE [ok |-> TRUE, layout |-> IF av = <<>> THEN "all" ELSE av[Len(av)]]

\* parser.parse_args(): every occurrence of --layout is checked against
\* choices, the last one is kept, and the default is "all"
parse_args(av) ==
    IF \E k \in 1..Len(av) : av[k] \notin Choices
    THEN [ok |-> FALSE, layout |-> NoLayout]
    ELSE [ok |-> TRUE, layout |-> IF av = <<>> THEN "all" ELSE av[Len(av)]]

\* os.path.join(args.output, f"keyboard_{layout_name}.bin")
path_of(name) == <<"keyboard_", name, ".bin">>

NoFiles == [p \in {} |-> <<>>]

\* the files an earlier, complete run of the script left behind
PreviousFiles ==
    [p \in {path_of(n) : n \in Range(LayoutNames)} |->
        Encode(compute_distance_matrix(LAYOUTS[p[2]]))]

InitialFs(pr) == IF pr THEN PreviousFiles ELSE NoFiles

\* the proper prefixes of the buffer a failed flush can leave in the file
TornLengths(b) == {(k * Len(b)) \div (MaxTorn + 1) : k \in 0..MaxTorn}

NotDecoded == [kind |-> "none"]

----------------------------------------------------------------------------
(* main() and write_layout_file(), step by step *)

ParseArgs ==
    /\ pc = "start"
    /\ LET a == parse_args(argv)
       IN  /\ args_layout' = a.layout
           /\ pc' = IF a.ok THEN "makedirs" ELSE "usage_error"
    /\ UNCHANGED <<argv, prev, layouts_to_generate, idx, layout_name, rows,
                   output_path, matrix, buf, fs, stdout, failed, ret, decoded>>

\* os.makedirs(args.output, exist_ok=True), which may raise, and the list of
\* layouts to generate
MakeDirs ==
    /\ pc = "makedirs"
    /\ \/ /\ layouts_to_generate' =
                IF args_layout = "all" THEN LayoutNames ELSE <<args_layout>>
          /\ idx' = 0
          /\ pc' = "loop"
       \/ /\ pc' = "crashed"
          /\ UNCHANGED <<layouts_to_generate, idx>>
    /\ UNCHANGED <<argv, prev, args_layout, layout_name, rows, output_path,
                   matrix, buf, fs, stdout, failed, ret, decoded>>

LoopBody ==
    /\ pc = "loop"
    /\ idx < Len(layouts_to_generate)
    /\ layout_name' = layouts_to_generate[idx + 1]
    /\ rows' = LAYOUTS[layout_name']
    /\ output_path' = path_of(layout_name')
    /\ stdout' = Append(stdout, <<"Generating", layout_name'>>)
    /\ pc' = "compute"
    /\ UNCHANGED <<argv, prev, args_layout, layouts_to_generate, idx, matrix,
                   buf, fs, failed, ret, decoded>>

LoopExit ==
    /\ pc = "loop"
    /\ idx >= Len(layouts_to_generate)
    /\ stdout' = Append(stdout, <<"Done", Len(layouts_to_generate)>>)
    /\ ret' = "None"
    /\ pc' = "done"
    /\ UNCHANGED <<argv, prev, args_layout, layouts_to_generate, idx,
                   layout_name, rows, output_path, matrix, buf, fs, failed,
                   decoded>>

ComputeMatrix ==
    /\ pc = "compute"
    /\ matrix' = compute_distance_matrix(rows)
    /\ pc' = "open"
    /\ UNCHANGED <<argv, prev, args_layout, layouts_to_generate, idx,
                   layout_name, rows, output_path, buf, fs, stdout, failed,
                   ret, decoded>>

\* open(output_path, 'wb') creates the file or truncates it, or raises
OpenFile ==
    /\ pc = "open"
    /\ \/ /\ fs' = DictPut(fs, output_path, <<>>)
          /\ buf' = <<>>
          /\ pc' = "write"
          /\ UNCHANGED failed
       \/ /\ pc' = "crashed"
          /\ failed' = layout_name
          /\ UNCHANGED <<fs, buf>>
    /\ UNCHANGED <<argv, prev, args_layout, layouts_to_generate, idx,
                   layout_name, rows, output_path, matrix, stdout, ret,
                   decoded>>

\* the f.write calls of the with-block: 681 bytes, fewer than the file
\* object's buffer holds, so they stay in the buffer until the file is closed
WriteBuffered ==
    /\ pc = "write"
    /\ buf' = buf \o Encode(matrix)
    /\ pc' = "close"
    /\ UNCHANGED <<argv, prev, args_layout, layouts_to_generate, idx,
                   layout_name, rows, output_path, matrix, fs, stdout, failed,
                   ret, decoded>>

\* leaving the with-block flushes the buffer and closes the file; a flush
\* that fails (disk full, I/O error) leaves a proper prefix and raises
CloseFile ==
    /\ pc = "close"
    /\ buf' = <<>>
    /\ \/ /\ fs' = [fs EXCEPT ![output_path] = buf]
          /\ pc' = "report"
          /\ UNCHANGED failed
       \/ /\ \E n \in TornLengths(buf) :
                fs' = [fs EXCEPT ![output_path] = SubSeq(buf, 1, n)]
          /\ pc' = "crashed"
          /\ failed' = layout_name
    /\ UNCHANGED <<argv, prev, args_layout, layouts_to_generate, idx,
                   layout_name, rows, output_path, matrix, stdout, ret,
                   decoded>>

\* print(os.path.getsize(...)), and the loop moves on; what --verbose prints
\* in between reads the matrix and changes nothing
Report ==
    /\ pc = "report"
    /\ stdout' = Append(stdout, <<"Written", Len(fs[output_path]), output_path>>)
    /\ idx' = idx + 1
    /\ pc' = "loop"
    /\ UNCHANGED <<argv, prev, args_layout, layouts_to_generate, layout_name,
                   rows, output_path, matrix, buf, fs, failed, ret, decoded>>

\* the consumer of the file
DecodeFile ==
    /\ pc \in {"report", "crashed"}
    /\ decoded = NotDecoded
    /\ output_path \in DOMAIN fs
    /\ decoded' = Decode(fs[output_path])
    /\ UNCHANGED <<argv, prev, pc, args_layout, layouts_to_generate, idx,
                   layout_name, rows, output_path, matrix, buf, fs, stdout,
                   failed, ret>>

----------------------------------------------------------------------------
(* Specification of the script: main() on every command line *)

\* a name that is no key of LAYOUTS
UnknownName == "workman"

ArgValues == Choices \cup {UnknownName}

ArgvInputs == UNION {[1..n -> ArgValues] : n \in 0..MaxArgs}

Init ==
    /\ argv \in ArgvInputs
    /\ prev \in BOOLEAN
    /\ pc = "start"
    /\ args_layout = NoLayout
    /\ layouts_to_generate = <<>>
    /\ idx = 0
    /\ layout_name = NoLayout
    /\ rows = <<>>
    /\ output_path = path_of(NoLayout)
    /\ matrix = <<>>
    /\ buf = <<>>
    /\ fs = InitialFs(prev)
    /\ stdout = <<>>
    /\ failed = NoLayout
    /\ ret = "unset"
    /\ decoded = NotDecoded

Next ==
    \/ ParseArgs
    \/ MakeDirs
    \/ LoopBody
    \/ LoopExit
    \/ ComputeMatrix
    \/ OpenFile
    \/ WriteBuffered
    \/ CloseFile
    \/ Report

Spec == Init /\ [][Next]_vars

----------------------------------------------------------------------------
(* Specification of write_layout_file(output_path, rows) on layout          *)
(* definitions drawn from a bounded family, the built-in ones included      *)

\* the letters the generated definitions draw from, spread over a..z
Pool == {chr_a((k * 9) % NumLetters) : k \in 0..(PoolSize - 1)}

RECURSIVE RowsOver(_, _)
\* the rows of at most n distinct keys from avail
RowsOver(avail, n) ==
    IF n = 0 THEN {<<>>}
    ELSE {<<>>} \cup UNION {{<<c>> \o r : r \in RowsOver(avail \ {c}, n - 1)} :
                                c \in avail}

RECURSIVE LayoutsOver(_, _)
\* the definitions of exactly n rows with no key twice
LayoutsOver(avail, n) ==
    IF n = 0 THEN {<<>>}
    ELSE UNION {{<<r>> \o rest : rest \in LayoutsOver(avail \ Range(r), n - 1)} :
                    r \in RowsOver(avail, MaxRowLen)}

LayoutInputs ==
    UNION {LayoutsOver(Pool, n) : n \in 0..MaxRows}
        \cup {LAYOUTS[n] : n \in DOMAIN LAYOUTS}

InitWrite ==
    /\ rows \in LayoutInputs
    /\ pc = "compute"
    /\ argv = <<>>
    /\ prev = FALSE
    /\ args_layout = NoLayout
    /\ layouts_to_generate = <<>>
    /\ idx = 0
    /\ layout_name = "custom"
    /\ output_path = path_of("custom")
    /\ matrix = <<>>
    /\ buf = <<>>
    /\ fs = NoFiles
    /\ stdout = <<>>
    /\ failed = NoLayout
    /\ ret = "unset"
    /\ decoded = NotDecoded

NextWrite ==
    \/ ComputeMatrix
    \/ OpenFile
    \/ WriteBuffered
    \/ CloseFile
    \/ Report

SpecWrite == InitWrite /\ [][NextWrite]_vars

----------------------------------------------------------------------------
(* Specification of the round trip: the with-block of write_layout_file on  *)
(* a matrix drawn from a bounded family, then the consumer's decoding       *)

Classes == <<0, 1, 2, 255>>

GenMatrix(a, b, c) ==
    [i \in 0..(NumLetters - 1) |->
        [j \in 0..(NumLetters - 1) |-> Classes[((a * i + b * j + c) % 4) + 1]]]

MatrixInputs ==
    {GenMatrix(a, b, c) : a \in 0..MaxCoef, b \in 0..MaxCoef, c \in 0..MaxCoef}
        \cup {compute_distance_matrix(LAYOUTS[n]) : n \in DOMAIN LAYOUTS}

InitRT ==
    /\ matrix \in MatrixInputs
    /\ pc = "write"
    /\ argv = <<>>
    /\ prev = FALSE
    /\ args_layout = NoLayout
    /\ layouts_to_generate = <<>>
    /\ idx = 0
    /\ layout_name = "custom"
    /\ rows = <<>>
    /\ output_path = path_of("custom")
    /\ buf = <<>>
    /\ fs = DictPut(NoFiles, path_of("custom"), <<>>)
    /\ stdout = <<>>
    /\ failed = NoLayout
    /\ ret = "unset"
    /\ decoded = NotDecoded

NextRT ==
    \/ WriteBuffered
    \/ CloseFile
    \/ DecodeFile

SpecRT == InitRT /\ [][NextRT]_vars

----------------------------------------------------------------------------
(* The claims *)

\* the stagger table as the specification words it
stagger(r) ==
    CASE r = 0 -> 0
      [] r = 1 -> 1
      [] r = 2 -> 3
      [] OTHER -> 2 * r

\* the places (row index, column index) where letter c is a key of rws
PlacesOf(rws, c) ==
    {p \in UNION {{<<r, k>> : k \in 0..(Len(rws[r + 1]) - 1)} : r \in 0..(Len(rws) - 1)} :
        rws[p[1] + 1][p[2] + 1] = c}

OnLayout(rws, c) == PlacesOf(rws, c) # {}

CoordOf(rws, c) ==
    LET p == CHOOSE q \in PlacesOf(rws, c) : TRUE
    IN  <<2 * p[1], 2 * p[2] + stagger(p[1])>>

ExpectedClass(rws, i, j) ==
    IF i = j THEN 0
    ELSE IF ~OnLayout(rws, chr_a(i)) \/ ~OnLayout(rws, chr_a(j)) THEN 255
    ELSE LET a == CoordOf(rws, chr_a(i))
             b == CoordOf(rws, chr_a(j))
             dr == IF a[1] >= b[1] THEN a[1] - b[1] ELSE b[1] - a[1]
             dc == IF a[2] >= b[2] THEN a[2] - b[2] ELSE b[2] - a[2]
             cheb == IF dr >= dc THEN dr ELSE dc
         IN  IF cheb <= 2 THEN 1
             ELSE IF cheb > 4 THEN 255
             ELSE 2

LetterIdx == 0..(NumLetters - 1)

\* compute_distance_matrix has just returned
MatrixReady == pc = "open"

\* the layout's file has been written and closed without an error
FileWritten == pc = "report"

Idx(c) == CHOOSE i \in LetterIdx : chr_a(i) = c

Written(name) ==
    \E k \in 1..Len(stdout) : stdout[k] = <<"Written", FileSize, path_of(name)>>

C2_FileLayout ==
    FileWritten =>
        LET f == fs[output_path]
        IN  /\ Len(f) = 681
            /\ f[1] = 75 /\ f[2] = 89 /\ f[3] = 66 /\ f[4] = 68
            /\ f[5] = 1
            /\ \A row \in LetterIdx : \A col \in LetterIdx :
                  /\ f[5 + row * 26 + col + 1] = ExpectedClass(rows, row, col)
                  /\ f[5 + row * 26 + col + 1] \in {0, 1, 2, 255}

\* C2 witness: a written file of a layout that leaves letters out and whose
\* payload holds every class.
C2_Witness ==
    /\ FileWritten
    /\ Len(fs[output_path]) = 681
    /\ \E c \in Range(Letters) : ~OnLayout(rows, c)
    /\ \A v \in {0, 1, 2, 255} : \E k \in 6..681 : fs[output_path][k] = v

\* C3: the matrix of every built-in layout is symmetric.
C3_Symmetric ==
    MatrixReady =>
        \A i \in LetterIdx : \A j \in LetterIdx : matrix[i][j] = matrix[j][i]

\* C3 witness: the matrix of the last built-in layout, with two keys that are
\* far apart in the same row.
C3_Witness ==
    /\ MatrixReady
    /\ layout_name = "colemak"
    /\ matrix[Idx("q")][Idx("y")] = 255
    /\ matrix[Idx("y")][Idx("q")] = 255

\* C4: in the matrix of every built-in layout every letter's distance to
\* itself is class 0.
C4_DiagonalZero ==
    MatrixReady => \A i \in LetterIdx : matrix[i][i] = 0

\* C4 witness: the matrix of a built-in layout, all 26 diagonal cells 0 and an
\* adjacent pair at class 1.
C4_Witness ==
    /\ MatrixReady
    /\ layout_name = "dvorak"
    /\ \A i \in LetterIdx : matrix[i][i] = 0
    /\ matrix[Idx("a")][Idx("o")] = 1

\* C5: a letter x that is no key of the layout has class 255 in every cell of
\* its row and of its column off the diagonal, whether or not the other letter
\* is a key, and class 0 in its own diagonal cell.
C5_AbsentLetter ==
    MatrixReady =>
        \A x \in LetterIdx :
            ~OnLayout(rows, chr_a(x)) =>
                /\ matrix[x][x] = 0
                /\ \A y \in LetterIdx \ {x} :
                      matrix[x][y] = 255 /\ matrix[y][x] = 255

\* C5 witness: a layout with a key in the top left corner and a letter left
\* out, next to a letter that is left out too.
C5_Witness ==
    /\ MatrixReady
    /\ \E x \in LetterIdx : \E y \in LetterIdx : \E z \in LetterIdx :
          /\ x # z
          /\ ~OnLayout(rows, chr_a(x))
          /\ ~OnLayout(rows, chr_a(z))
          /\ Len(rows) >= 1 /\ Len(rows[1]) >= 1 /\ rows[1][1] = chr_a(y)
          /\ matrix[x][y] = 255
          /\ matrix[x][z] = 255

Terminal == {"done", "crashed", "usage_error"}

\* C6: at every point the destination path is absent, holds its
\* previous complete content, or holds the complete 681-byte file; no reader
\* sees a shorter file.
C6_AtomicWrite ==
    \A p \in DOMAIN fs :
        \/ Len(fs[p]) = FileSize
        \/ (prev /\ p \in DOMAIN PreviousFiles /\ fs[p] = PreviousFiles[p])

\* C7: when one selected layout fails, every other selected layout
\* is still written and main returns the number of failures.
C7_PerLayoutOutcomes ==
    (pc \in Terminal /\ failed # NoLayout) =>
        /\ \A n \in Range(layouts_to_generate) \ {failed} : Written(n)
        /\ ret \notin {"unset", "None"}

HasUnknown(av) == \E k \in 1..Len(av) : av[k] \notin Choices

ValidNames(av) == Range(av) \cap Range(LayoutNames)

C9_RoundTrip ==
    (FileWritten /\ decoded # NotDecoded) =>
        /\ Len(fs[output_path]) = 681
        /\ decoded.kind = "ok"
        /\ \A i \in LetterIdx : \A j \in LetterIdx :
              decoded.matrix[i][j] = matrix[i][j]

\* C9 witness: a decoded file of a matrix that is not symmetric and holds
\* every class.
C9_Witness ==
    /\ FileWritten
    /\ decoded # NotDecoded
    /\ decoded.kind = "ok"
    /\ \E i \in LetterIdx : \E j \in LetterIdx : matrix[i][j] # matrix[j][i]
    /\ \A v \in {0, 1, 2, 255} :
          \E i \in LetterIdx : \E j \in LetterIdx : matrix[i][j] = v

\* C10: on the built-in qwerty layout q and w are at distance 1 in both
\* directions, q and p at 255, a and q at 1, and the file is 681 bytes that
\* begin K, Y, B, D, 1.
C10_Qwerty ==
    layout_name = "qwerty" =>
        /\ pc \in {"open", "write", "close", "report"} =>
              /\ matrix[Idx("q")][Idx("w")] = 1
              /\ matrix[Idx("w")][Idx("q")] = 1
              /\ matrix[Idx("q")][Idx("p")] = 255
              /\ matrix[Idx("a")][Idx("q")] = 1
        /\ FileWritten =>
              /\ Len(fs[output_path]) = 681
              /\ SubSeq(fs[output_path], 1, 5) = <<75, 89, 66, 68, 1>>

\* C10 witness: the qwerty file has been written over an earlier run's file.
C10_Witness ==
    /\ prev
    /\ FileWritten
    /\ layout_name = "qwerty"
    /\ output_path = path_of("qwerty")
    /\ Len(fs[output_path]) = 681
    /\ matrix[Idx("q")][Idx("w")] = 1
    /\ matrix[Idx("q")][Idx("p")] = 255

====
